---- MODULE Spec2Model ----
(***************************************************************************)
(* The in-memory appointment store of src/EMR_Frontend_Assignment.jsx:     *)
(* the module-level collection mockAppointments, the id counter _nextId    *)
(* and the operations createAppointment, updateAppointmentStatus and       *)
(* deleteAppointment, and the React view on top of it:                     *)
(* AppointmentManagementView with its NewAppointmentModal.                 *)
(*                                                                         *)
(* Representation.  A JavaScript string that the code only compares for    *)
(* equality (names, dates, statuses, modes) is a TLA+ string.  A time of   *)
(* day is parsed by the code (split(':').map(Number)), so it is kept as    *)
(* the sequence of its characters and parsed the same way.  "" and <<>>    *)
(* stand for an empty or absent value: the code tests both with `!v` or    *)
(* `v || default`.  A duration is a JavaScript integer.  Undefined is the   *)
(* value of an optional property or argument the caller did not supply.    *)
(***************************************************************************)
EXTENDS Integers, Sequences, FiniteSets, TLC

\* mockAppointments and _nextId are the module-level state of the store.
\* issuedIds (every id a record ever carried) and lastCall (the arguments and
\* the outcome of the latest call) record what a caller observes; no
\* operation reads them.
VARIABLES mockAppointments, _nextId, issuedIds, lastCall

\* The state of AppointmentManagementView (lines 993-1005) and of its
\* NewAppointmentModal (lines 385-399).  createErrorState is the view's
\* `createError` state: the thrown error, NoError for ''.  mounted tells
\* whether the mount effect of lines 1015-1020 has run.  lastEvent records
\* the latest handler call of the view; no handler reads it.
VARIABLES appointments, filteredAppointments, selectedDate, activeTab,
          searchTerm, statusFilter, doctorFilter, isNewAppointmentOpen,
          createErrorState, formData, validationErrors, mounted, lastEvent

storeVars == <<mockAppointments, _nextId, issuedIds, lastCall>>

filterVars == <<selectedDate, activeTab, searchTerm, statusFilter, doctorFilter>>

modalVars == <<isNewAppointmentOpen, createErrorState, formData, validationErrors>>

viewVars ==
  <<appointments, filteredAppointments, filterVars, modalVars, mounted, lastEvent>>

vars == <<storeVars, viewVars>>

(***************************************************************************)
(* Bounds of the exploration.                                              *)
(***************************************************************************)
\* number of appointments that may be created on top of the seed
MaxCreates == 2

\* a counter that starts at the last seed id (12) instead of the id after it
FirstFreeId_lastSeedId == 13 - 1

\* the value _nextId starts with
FirstFreeId == 13

(***************************************************************************)
(* Times of day as character sequences.                                    *)
(***************************************************************************)
T0900 == <<"0", "9", ":", "0", "0">>
T0915 == <<"0", "9", ":", "1", "5">>
T0930 == <<"0", "9", ":", "3", "0">>
T1000 == <<"1", "0", ":", "0", "0">>
T1030 == <<"1", "0", ":", "3", "0">>
T1100 == <<"1", "1", ":", "0", "0">>
T1130 == <<"1", "1", ":", "3", "0">>
T1200 == <<"1", "2", ":", "0", "0">>
T1400 == <<"1", "4", ":", "0", "0">>
T1430 == <<"1", "4", ":", "3", "0">>
T1530 == <<"1", "5", ":", "3", "0">>
T1600 == <<"1", "6", ":", "0", "0">>

(***************************************************************************)
(* The seed collection.                                                    *)
(***************************************************************************)
SeedAppointments ==
  << [id |-> 1, name |-> "Sarah Johnson", date |-> "2026-01-30", time |-> T0900,
      duration |-> 30, doctorName |-> "Dr. Rajesh Kumar", status |-> "Confirmed",
      mode |-> "In-Person", reason |-> "Diabetes Management",
      phone |-> "+91 98765 43210", email |-> "sarah.j@email.com",
      notes |-> "Patient needs prescription refill"],
     [id |-> 2, name |-> "Michael Chen", date |-> "2026-01-30", time |-> T1000,
      duration |-> 45, doctorName |-> "Dr. Priya Sharma", status |-> "Scheduled",
      mode |-> "In-Person", reason |-> "Annual Physical Examination",
      phone |-> "+91 98765 43211", email |-> "m.chen@email.com", notes |-> ""],
     [id |-> 3, name |-> "Emily Rodriguez", date |-> "2026-01-30", time |-> T1130,
      duration |-> 30, doctorName |-> "Dr. Rajesh Kumar", status |-> "Confirmed",
      mode |-> "Video Call", reason |-> "Cold and Flu Symptoms",
      phone |-> "+91 98765 43212", email |-> "emily.r@email.com",
      notes |-> "Video consultation requested"],
     [id |-> 4, name |-> "Rahul Sharma", date |-> "2026-01-31", time |-> T0900,
      duration |-> 30, doctorName |-> "Dr. Priya Sharma", status |-> "Upcoming",
      mode |-> "In-Person", reason |-> "General Checkup",
      phone |-> "+91 98765 43213", email |-> "rahul.s@email.com", notes |-> ""],
     [id |-> 5, name |-> "Anita Desai", date |-> "2026-01-31", time |-> T1400,
      duration |-> 45, doctorName |-> "Dr. Amit Patel", status |-> "Upcoming",
      mode |-> "Video Call", reason |-> "Follow-up Consultation",
      phone |-> "+91 98765 43214", email |-> "anita.d@email.com", notes |-> ""],
     [id |-> 6, name |-> "Vikram Singh", date |-> "2026-01-29", time |-> T1000,
      duration |-> 30, doctorName |-> "Dr. Rajesh Kumar", status |-> "Confirmed",
      mode |-> "In-Person", reason |-> "Blood Pressure Check",
      phone |-> "+91 98765 43215", email |-> "vikram.s@email.com",
      notes |-> "Regular checkup"],
     [id |-> 7, name |-> "Priya Nair", date |-> "2026-01-29", time |-> T1530,
      duration |-> 45, doctorName |-> "Dr. Amit Patel", status |-> "Cancelled",
      mode |-> "In-Person", reason |-> "Skin Consultation",
      phone |-> "+91 98765 43216", email |-> "priya.n@email.com",
      notes |-> "Patient cancelled"],
     [id |-> 8, name |-> "Deepak Malhotra", date |-> "2026-02-01", time |-> T0930,
      duration |-> 30, doctorName |-> "Dr. Priya Sharma", status |-> "Scheduled",
      mode |-> "In-Person", reason |-> "Vaccination",
      phone |-> "+91 98765 43217", email |-> "deepak.m@email.com", notes |-> ""],
     [id |-> 9, name |-> "Sunita Verma", date |-> "2026-02-01", time |-> T1100,
      duration |-> 60, doctorName |-> "Dr. Rajesh Kumar", status |-> "Upcoming",
      mode |-> "In-Person", reason |-> "Complete Health Checkup",
      phone |-> "+91 98765 43218", email |-> "sunita.v@email.com", notes |-> ""],
     [id |-> 10, name |-> "Kiran Joshi", date |-> "2026-01-30", time |-> T1600,
      duration |-> 30, doctorName |-> "Dr. Amit Patel", status |-> "Confirmed",
      mode |-> "Phone Call", reason |-> "Test Results Discussion",
      phone |-> "+91 98765 43219", email |-> "kiran.j@email.com", notes |-> ""],
     [id |-> 11, name |-> "Neha Kapoor", date |-> "2026-01-28", time |-> T1030,
      duration |-> 30, doctorName |-> "Dr. Amit Patel", status |-> "Confirmed",
      mode |-> "Phone Call", reason |-> "Medication Review",
      phone |-> "+91 98765 43220", email |-> "neha.k@email.com",
      notes |-> "Past appointment - completed"],
     [id |-> 12, name |-> "Amit Tiwari", date |-> "2026-02-02", time |-> T1430,
      duration |-> 45, doctorName |-> "Dr. Priya Sharma", status |-> "Scheduled",
      mode |-> "Video Call", reason |-> "Mental Health Consultation",
      phone |-> "+91 98765 43221", email |-> "amit.t@email.com",
      notes |-> "First time patient"] >>

(***************************************************************************)
(* timeToMinutes: split the string at ':', convert the first two parts     *)
(* with Number, return hours * 60 + minutes.                               *)
(***************************************************************************)
DigitValue(c) ==
  CASE c = "0" -> 0 [] c = "1" -> 1 [] c = "2" -> 2 [] c = "3" -> 3
    [] c = "4" -> 4 [] c = "5" -> 5 [] c = "6" -> 6 [] c = "7" -> 7
    [] c = "8" -> 8 [] c = "9" -> 9

RECURSIVE Number(_)
\* Number("") is 0; a string of decimal digits is its value
Number(s) ==
  IF s = <<>> THEN 0
  ELSE 10 * Number(SubSeq(s, 1, Len(s) - 1)) + DigitValue(s[Len(s)])

RECURSIVE split(_)
\* the parts of s between the ':' separators, in order
split(s) ==
  IF \A i \in 1..Len(s) : s[i] # ":" THEN << s >>
  ELSE LET k == CHOOSE i \in 1..Len(s) :
                  s[i] = ":" /\ \A j \in 1..(i - 1) : s[j] # ":"
       IN  << SubSeq(s, 1, k - 1) >> \o split(SubSeq(s, k + 1, Len(s)))

timeToMinutes(timeStr) ==
  LET parts   == split(timeStr)
      hours   == Number(parts[1])
      minutes == Number(parts[2])
  IN  hours * 60 + minutes

(***************************************************************************)
(* What a call handed back: the thrown error or the returned value.        *)
(* `ret` is <<>> for null / nothing returned, << r >> for a record r.      *)
(***************************************************************************)
NoError ==
  [type |-> "none", fields |-> <<>>, doctor |-> "", date |-> "",
   time |-> <<>>, duration |-> 0, patient |-> ""]

\* Error(`Missing required fields: ${missingFields.join(', ')}`)
MissingFieldsError(missing) == [NoError EXCEPT !.type = "missing", !.fields = missing]

\* Error(`Time conflict detected: ${newDoctor} already has an appointment on
\*        ${newDate} from ${apt.time} for ${apt.duration} minutes (Patient: ${apt.name})`)
TimeConflictError(newDoctor, newDate, apt) ==
  [NoError EXCEPT !.type = "conflict", !.doctor = newDoctor, !.date = newDate,
                  !.time = apt.time, !.duration = apt.duration, !.patient = apt.name]

NoPayload ==
  [patientName |-> "", date |-> "", time |-> <<>>, duration |-> 0,
   doctorName |-> "", mode |-> "", status |-> "", reason |-> "",
   phone |-> "", email |-> "", notes |-> ""]

\* an optional property or argument that was not supplied (undefined / null)
Undefined == "<undefined>"

NoFilter == [date |-> Undefined, status |-> Undefined, doctorName |-> Undefined]

\* `list` is the array getAppointments returned
NoCall ==
  [op |-> "none", payload |-> NoPayload, id |-> 0, newStatus |-> "",
   filter |-> NoFilter, error |-> NoError, ret |-> <<>>, list |-> <<>>,
   ok |-> FALSE]

(***************************************************************************)
(* getAppointments.                                                        *)
(***************************************************************************)
\* `if (v)` on a string argument
truthy(v) == v # "" /\ v # Undefined

\* a query that forgets its doctorName filter
getAppointmentsOf_noDoctor(appts, date, status, doctorName) ==
  LET byDate   == IF truthy(date)
                  THEN SelectSeq(appts, LAMBDA apt : apt.date = date) ELSE appts
  IN  IF truthy(status)
      THEN SelectSeq(byDate, LAMBDA apt : apt.status = status) ELSE byDate

\* the three filters applied one after the other to a copy of the collection
getAppointmentsOf(appts, date, status, doctorName) ==
  LET all      == appts
      byDate   == IF truthy(date)
                  THEN SelectSeq(all, LAMBDA apt : apt.date = date) ELSE all
      byStatus == IF truthy(status)
                  THEN SelectSeq(byDate, LAMBDA apt : apt.status = status) ELSE byDate
  IN  IF truthy(doctorName)
      THEN SelectSeq(byStatus, LAMBDA apt : apt.doctorName = doctorName)
      ELSE byStatus

getAppointments(date, status, doctorName) ==
  /\ lastCall' =
       [NoCall EXCEPT !.op = "get",
                      !.filter = [date |-> date, status |-> status,
                                  doctorName |-> doctorName],
                      !.list = getAppointmentsOf(mockAppointments, date, status,
                                                 doctorName),
                      !.ok = TRUE]
  /\ UNCHANGED <<mockAppointments, _nextId, issuedIds>>

(***************************************************************************)
(* createAppointment, step 1: required fields.                             *)
(***************************************************************************)
requiredFields == <<"patientName", "date", "time", "duration", "doctorName", "mode">>

\* !payload[field]: "", the absent value and the number 0 are falsy
isFalsy(payload, field) ==
  CASE field = "patientName" -> payload.patientName = ""
    [] field = "date"        -> payload.date = ""
    [] field = "time"        -> payload.time = <<>>
    [] field = "duration"    -> payload.duration = 0
    [] field = "doctorName"  -> payload.doctorName = ""
    [] field = "mode"        -> payload.mode = ""

\* a validation that stops at the first missing field
missingFields_firstOnly(payload) ==
  LET all == SelectSeq(requiredFields, LAMBDA f : isFalsy(payload, f))
  IN  IF all = <<>> THEN <<>> ELSE << all[1] >>

missingFields(payload) ==
  SelectSeq(requiredFields, LAMBDA f : isFalsy(payload, f))

(***************************************************************************)
(* createAppointment, step 2: the scan for a time conflict.                *)
(***************************************************************************)
\* a scan that forgets to compare the date
conflictCandidate_anyDate(apt, newDoctor, newDate) ==
  /\ apt.doctorName = newDoctor
  /\ apt.status # "Cancelled"

\* a scan that forgets to skip cancelled appointments
conflictCandidate_anyStatus(apt, newDoctor, newDate) ==
  /\ apt.doctorName = newDoctor
  /\ apt.date = newDate

conflictCandidate(apt, newDoctor, newDate) ==
  /\ apt.doctorName = newDoctor
  /\ apt.date = newDate
  /\ apt.status # "Cancelled"

\* a test that only sees appointments starting at the same minute
rangesOverlap_sameStart(newStart, newEnd, existingStart, existingEnd) ==
  newStart = existingStart

\* an overlap test on closed intervals
rangesOverlap_closed(newStart, newEnd, existingStart, existingEnd) ==
  newStart <= existingEnd /\ existingStart <= newEnd

rangesOverlap(newStart, newEnd, existingStart, existingEnd) ==
  newStart < existingEnd /\ existingStart < newEnd

\* the body of the for loop: does apt make the create throw?
conflictsWith(apt, newDoctor, newDate, newStart, newEnd) ==
  LET existingStart == timeToMinutes(apt.time)
      existingEnd   == existingStart + apt.duration
  IN  /\ conflictCandidate(apt, newDoctor, newDate)
      /\ rangesOverlap(newStart, newEnd, existingStart, existingEnd)

\* a scan that reports the last conflicting appointment instead of the first
scanFrom_last(appts, newDoctor, newDate, newStart, newEnd, i) ==
  LET hits == {j \in i..Len(appts) :
                 conflictsWith(appts[j], newDoctor, newDate, newStart, newEnd)}
  IN  IF hits = {} THEN 0 ELSE CHOOSE j \in hits : \A k \in hits : k <= j

RECURSIVE scanFrom(_, _, _, _, _, _)
\* the for loop from position i on: the position of the first appointment
\* that throws, 0 when the loop runs to its end
scanFrom(appts, newDoctor, newDate, newStart, newEnd, i) ==
  IF i > Len(appts) THEN 0
  ELSE IF conflictsWith(appts[i], newDoctor, newDate, newStart, newEnd) THEN i
  ELSE scanFrom(appts, newDoctor, newDate, newStart, newEnd, i + 1)

\* parseInt(payload.duration) is the duration itself for an integer
firstConflict(appts, payload) ==
  LET newDate     == payload.date
      newTime     == payload.time
      newDuration == payload.duration
      newDoctor   == payload.doctorName
      newStart    == timeToMinutes(newTime)
      newEnd      == newStart + newDuration
  IN  scanFrom(appts, newDoctor, newDate, newStart, newEnd, 1)

(***************************************************************************)
(* createAppointment, steps 3 and 4: the new record.                       *)
(***************************************************************************)
\* a record built from the payload's values as they are
orDefault_keep(v, default) == v

\* v || default
orDefault(v, default) == IF v = "" \/ v = Undefined THEN default ELSE v

newAppointment(payload, newId) ==
  [id         |-> newId,
   name       |-> payload.patientName,
   date       |-> payload.date,
   time       |-> payload.time,
   duration   |-> payload.duration,
   doctorName |-> payload.doctorName,
   status     |-> orDefault(payload.status, "Scheduled"),
   mode       |-> payload.mode,
   reason     |-> orDefault(payload.reason, ""),
   phone      |-> orDefault(payload.phone, ""),
   email      |-> orDefault(payload.email, ""),
   notes      |-> orDefault(payload.notes, "")]

\* unshift instead of push: the record is put in front
push_front(appts, rec) == << rec >> \o appts

\* mockAppointments.push(newAppointment)
push(appts, rec) == Append(appts, rec)

\* a counter that is read but not advanced
postIncrement_stuck(n) == n

\* the value of _nextId after `_nextId++`
postIncrement(n) == n + 1

\* the error createAppointment throws for payload, NoError when it returns
\* a create that validates only the fields the scan reads before it scans,
\* and the other required fields after it
createError_conflictFirst(appts, payload) ==
  LET missing == missingFields(payload)
      slotMissing ==
        \E f \in {"date", "time", "duration", "doctorName"} : isFalsy(payload, f)
  IN  IF slotMissing THEN MissingFieldsError(missing)
      ELSE IF firstConflict(appts, payload) # 0
           THEN TimeConflictError(payload.doctorName, payload.date,
                                  appts[firstConflict(appts, payload)])
      ELSE IF Len(missing) > 0 THEN MissingFieldsError(missing)
      ELSE NoError

createError(appts, payload) ==
  LET missing == missingFields(payload)
      k       == firstConflict(appts, payload)
  IN  IF Len(missing) > 0 THEN MissingFieldsError(missing)
      ELSE IF k # 0 THEN TimeConflictError(payload.doctorName, payload.date, appts[k])
      ELSE NoError

\* a create that takes its id before it validates
nextIdAfterCreate_early(error, nextId) == postIncrement(nextId)

\* _nextId after the call: a throw leaves before line 327 is reached
nextIdAfterCreate(error, nextId) ==
  IF error.type = "none" THEN postIncrement(nextId) ELSE nextId

\* the checks run once per call: error is what they throw
createAppointment(payload) ==
  \E error \in {createError(mockAppointments, payload)} :
  LET rec == newAppointment(payload, _nextId)
  IN  /\ error.type = "none" => _nextId < FirstFreeId + MaxCreates
      /\ _nextId' = nextIdAfterCreate(error, _nextId)
      /\ mockAppointments' =
           IF error.type = "none" THEN push(mockAppointments, rec)
           ELSE mockAppointments
      /\ issuedIds' =
           IF error.type = "none" THEN issuedIds \cup {rec.id} ELSE issuedIds
      /\ lastCall' =
           [NoCall EXCEPT !.op = "create", !.payload = payload, !.error = error,
                          !.ret = IF error.type = "none" THEN << rec >> ELSE <<>>,
                          !.ok = (error.type = "none")]

(***************************************************************************)
(* updateAppointmentStatus.                                                *)
(***************************************************************************)
\* a status that cannot be left once it is Cancelled
setStatusAt_terminal(appts, index, newStatus) ==
  IF appts[index].status = "Cancelled" THEN appts
  ELSE [appts EXCEPT ![index] = [@ EXCEPT !.status = newStatus]]

\* a lookup whose test always succeeds, so that it yields the first record
findIndex_first(appts, id) == IF Len(appts) > 0 THEN 1 ELSE 0

\* position of the first record with that id, 0 when there is none
\* (Array.prototype.find / findIndex, which yield undefined / -1)
findIndex(appts, id) ==
  IF \E i \in 1..Len(appts) : appts[i].id = id
  THEN CHOOSE i \in 1..Len(appts) :
         appts[i].id = id /\ \A j \in 1..(i - 1) : appts[j].id # id
  ELSE 0

\* an update that writes the status of every record
setStatusAt_all(appts, index, newStatus) ==
  [i \in 1..Len(appts) |-> [appts[i] EXCEPT !.status = newStatus]]

\* apt.status = newStatus, on the record found
setStatusAt(appts, index, newStatus) ==
  [appts EXCEPT ![index] = [@ EXCEPT !.status = newStatus]]

updateAppointmentStatus(id, newStatus) ==
  \E index \in {findIndex(mockAppointments, id)} :
      /\ mockAppointments' =
           IF index # 0 THEN setStatusAt(mockAppointments, index, newStatus)
           ELSE mockAppointments
      /\ lastCall' =
           [NoCall EXCEPT !.op = "update", !.id = id, !.newStatus = newStatus,
                          !.ret = IF index # 0 THEN << mockAppointments'[index] >>
                                  ELSE <<>>,
                          !.ok = (index # 0)]
      /\ UNCHANGED <<_nextId, issuedIds>>

(***************************************************************************)
(* deleteAppointment.                                                      *)
(***************************************************************************)
\* a soft delete: the record stays, marked Cancelled
splice1_tombstone(appts, index) ==
  [appts EXCEPT ![index] = [@ EXCEPT !.status = "Cancelled"]]

\* splice(index) without a count: removes everything from index on
splice1_toEnd(appts, index) == SubSeq(appts, 1, index - 1)

\* mockAppointments.splice(index, 1)
splice1(appts, index) ==
  SubSeq(appts, 1, index - 1) \o SubSeq(appts, index + 1, Len(appts))

deleteAppointment(id) ==
  \E index \in {findIndex(mockAppointments, id)} :
      /\ mockAppointments' =
           IF index # 0 THEN splice1(mockAppointments, index)
           ELSE mockAppointments
      /\ lastCall' = [NoCall EXCEPT !.op = "delete", !.id = id, !.ok = (index # 0)]
      /\ UNCHANGED <<_nextId, issuedIds>>

(***************************************************************************)
(* The calls explored.                                                     *)
(***************************************************************************)
Times == {T0900, T0915, T0930, T1000}

BasePayload ==
  [NoPayload EXCEPT !.patientName = "Test P", !.date = "2026-01-30",
                    !.time = T0915, !.duration = 30,
                    !.doctorName = "Dr. Rajesh Kumar", !.mode = "In-Person"]

\* the empty / absent value of a required field
blank(payload, field) ==
  CASE field = "patientName" -> [payload EXCEPT !.patientName = ""]
    [] field = "date"        -> [payload EXCEPT !.date = ""]
    [] field = "time"        -> [payload EXCEPT !.time = <<>>]
    [] field = "duration"    -> [payload EXCEPT !.duration = 0]
    [] field = "doctorName"  -> [payload EXCEPT !.doctorName = ""]
    [] field = "mode"        -> [payload EXCEPT !.mode = ""]

RECURSIVE blankAll(_, _)
blankAll(payload, fields) ==
  IF fields = {} THEN payload
  ELSE LET f == CHOOSE x \in fields : TRUE
       IN  blankAll(blank(payload, f), fields \ {f})

RequiredFieldSet == {requiredFields[i] : i \in 1..Len(requiredFields)}

\* payloads with all six required fields: without a status at each time,
\* and with a status of its own
CompletePayloads ==
  {[BasePayload EXCEPT !.time = t] : t \in Times}
    \cup {[BasePayload EXCEPT !.time = T0900, !.status = "Cancelled"]}

\* the base payload with some required fields left out
IncompletePayloads ==
  {blankAll(BasePayload, m) :
     m \in {{"date"}, {"patientName", "mode"}, {"time", "duration"}}}

Payloads == CompletePayloads \cup IncompletePayloads

\* the base payload with every non-empty combination of required fields left out
AllIncompletePayloads ==
  {blankAll(BasePayload, m) : m \in (SUBSET RequiredFieldSet) \ {{}}}

ValidationPayloads == {BasePayload} \cup AllIncompletePayloads

\* ids passed to update and delete: a seed record, a created record, no record
CallIds == {1, 13, 99}

CallStatuses == {"Confirmed", "Cancelled"}

(***************************************************************************)
(* The state machine.                                                      *)
(***************************************************************************)
\* new Date().toISOString().split('T')[0]: the day the page is loaded
TODAY == "2026-01-30"

\* [...new Set(appointments.map(a => a.doctorName))]
RECURSIVE uniqueFrom(_, _)
uniqueFrom(names, i) ==
  IF i > Len(names) THEN <<>>
  ELSE (IF \E j \in 1..(i - 1) : names[j] = names[i] THEN <<>> ELSE << names[i] >>)
         \o uniqueFrom(names, i + 1)

doctors(appts) == uniqueFrom([i \in 1..Len(appts) |-> appts[i].doctorName], 1)

\* the form's initial value, and the value handleClose resets it to
DefaultFormData(docs) ==
  [patientName |-> "", date |-> TODAY, time |-> T0900, duration |-> 30,
   doctorName |-> IF Len(docs) > 0 THEN docs[1] ELSE "Dr. Rajesh Kumar",
   status |-> "Scheduled", mode |-> "In-Person", reason |-> "",
   phone |-> "", email |-> "", notes |-> ""]

\* useState({}) of validationErrors: no field has a message
NoValidationErrors == [f \in {requiredFields[i] : i \in 1..Len(requiredFields)} |-> ""]

\* arg is the argument of a filter handler (a date, a tab, a term, an option)
NoEvent == [handler |-> "none", arg |-> ""]

\* the first render: every useState at its initial value
ViewInit ==
  /\ appointments = <<>>
  /\ filteredAppointments = <<>>
  /\ selectedDate = ""
  /\ activeTab = "All"
  /\ searchTerm = ""
  /\ statusFilter = "All Status"
  /\ doctorFilter = "All Doctors"
  /\ isNewAppointmentOpen = FALSE
  /\ createErrorState = NoError
  /\ formData = DefaultFormData(doctors(<<>>))
  /\ validationErrors = NoValidationErrors
  /\ mounted = FALSE
  /\ lastEvent = NoEvent

\* a store that starts without the last seed record
Init_dropsLast ==
  /\ mockAppointments = SubSeq(SeedAppointments, 1, Len(SeedAppointments) - 1)
  /\ _nextId = FirstFreeId
  /\ issuedIds = {SeedAppointments[i].id : i \in 1..Len(SeedAppointments)}
  /\ lastCall = NoCall
  /\ ViewInit

Init ==
  /\ mockAppointments = SeedAppointments
  /\ _nextId = FirstFreeId
  /\ issuedIds = {SeedAppointments[i].id : i \in 1..Len(SeedAppointments)}
  /\ lastCall = NoCall
  /\ ViewInit

Next ==
  \/ \E payload \in Payloads : createAppointment(payload)
  \/ \E id \in CallIds, newStatus \in CallStatuses : updateAppointmentStatus(id, newStatus)
  \/ \E id \in CallIds : deleteAppointment(id)

Spec == Init /\ [][Next /\ UNCHANGED viewVars]_vars

\* the same store, called with every combination of missing required fields
NextValidation ==
  \/ \E payload \in ValidationPayloads : createAppointment(payload)
  \/ \E id \in {1, 99} : updateAppointmentStatus(id, "Cancelled")
  \/ \E id \in {1, 99} : deleteAppointment(id)

SpecValidation == Init /\ [][NextValidation /\ UNCHANGED viewVars]_vars

(***************************************************************************)
(* The store with its query.  The payloads are the 12:00 request with no   *)
(* optional property supplied, a request with every optional property      *)
(* supplied, and the 09:15 request that collides with seed record 1.       *)
(***************************************************************************)
BarePayload ==
  [patientName |-> "Test P2", date |-> "2026-01-30", time |-> T1200,
   duration |-> 30, doctorName |-> "Dr. Rajesh Kumar", mode |-> "In-Person",
   status |-> Undefined, reason |-> Undefined, phone |-> Undefined,
   email |-> Undefined, notes |-> Undefined]

FullPayload ==
  [patientName |-> "Test P3", date |-> "2026-01-30", time |-> T1000,
   duration |-> 30, doctorName |-> "Dr. Rajesh Kumar", mode |-> "Video Call",
   status |-> "Upcoming", reason |-> "Fever", phone |-> "+91 90000 00000",
   email |-> "p3@email.com", notes |-> "Walk-in"]

QueryPayloads == {BarePayload, FullPayload, BasePayload}

QueryIds == {1, 13}

FilterDates == {Undefined, "2026-01-30", "2026-03-01"}

FilterStatuses == {Undefined, "Confirmed"}

FilterDoctors == {Undefined, "Dr. Rajesh Kumar"}

NextQuery ==
  \/ \E payload \in QueryPayloads : createAppointment(payload)
  \/ \E id \in QueryIds : updateAppointmentStatus(id, "Cancelled")
  \/ \E id \in QueryIds : deleteAppointment(id)
  \/ \E date \in FilterDates, status \in FilterStatuses, doctorName \in FilterDoctors :
       getAppointments(date, status, doctorName)

SpecQuery == Init /\ [][NextQuery /\ UNCHANGED viewVars]_vars

(***************************************************************************)
(* The store called with values the caller is free to pass: any integer    *)
(* duration, any status string.                                            *)
(***************************************************************************)
Statuses == {"Scheduled", "Confirmed", "Upcoming", "Cancelled"}

AnyStatuses == Statuses \cup {"Completed"}

AnyDurations == {-30, 0, 30}

AnyPayloads ==
  {[BasePayload EXCEPT !.time = T1000, !.duration = d, !.status = s] :
     d \in AnyDurations, s \in {"", "Completed"}}

AnyIds == {7, 13}

NextAnyInput ==
  \/ \E payload \in AnyPayloads : createAppointment(payload)
  \/ \E id \in AnyIds, newStatus \in AnyStatuses : updateAppointmentStatus(id, newStatus)

SpecAnyInput == Init /\ [][NextAnyInput /\ UNCHANGED viewVars]_vars

(***************************************************************************)
(* The view: strings as the filter effect reads them.                      *)
(***************************************************************************)
\* the characters of a date, in the order of their code units
DateChars == "-0123456789"

codeUnit(c) == CHOOSE i \in 1..Len(DateChars) : SubSeq(DateChars, i, i) = c

RECURSIVE lessThan(_, _)
\* a < b on two strings: the comparison by code units of lines 1043 and 1046
lessThan(a, b) ==
  IF Len(b) = 0 THEN FALSE
  ELSE IF Len(a) = 0 THEN TRUE
  ELSE IF Head(a) = Head(b) THEN lessThan(Tail(a), Tail(b))
  ELSE codeUnit(Head(a)) < codeUnit(Head(b))

UpperCase == "ABCDEFGHIJKLMNOPQRSTUVWXYZ"

LowerCase == "abcdefghijklmnopqrstuvwxyz"

lowerChar(c) ==
  IF \E i \in 1..Len(UpperCase) : SubSeq(UpperCase, i, i) = c
  THEN LET i == CHOOSE k \in 1..Len(UpperCase) : SubSeq(UpperCase, k, k) = c
       IN  SubSeq(LowerCase, i, i)
  ELSE c

RECURSIVE toLowerCase(_)
toLowerCase(str) ==
  IF Len(str) = 0 THEN "" ELSE lowerChar(Head(str)) \o toLowerCase(Tail(str))

\* hay.includes(needle)
includes(hay, needle) ==
  \E i \in 1..(Len(hay) - Len(needle) + 1) :
    SubSeq(hay, i, i + Len(needle) - 1) = needle

RECURSIVE trimStart(_)
trimStart(str) ==
  IF Len(str) > 0 /\ Head(str) = " " THEN trimStart(Tail(str)) ELSE str

RECURSIVE trimEnd(_)
trimEnd(str) ==
  IF Len(str) > 0 /\ SubSeq(str, Len(str), Len(str)) = " "
  THEN trimEnd(SubSeq(str, 1, Len(str) - 1))
  ELSE str

\* str.trim(), for the blanks a name is typed with
trim(str) == trimEnd(trimStart(str))

(***************************************************************************)
(* The view: the filter effect of lines 1026-1073.  It reads the store     *)
(* through getAppointments, not the `appointments` state.                  *)
(***************************************************************************)
\* lines 1028-1050: the calendar date takes priority over the tab
byDateOrTab(appts, date, tab) ==
  LET all == getAppointmentsOf(appts, Undefined, Undefined, Undefined)
  IN  IF date # "" THEN getAppointmentsOf(appts, date, Undefined, Undefined)
      ELSE IF tab = "Today" THEN SelectSeq(all, LAMBDA apt : apt.date = TODAY)
      ELSE IF tab = "Upcoming" THEN SelectSeq(all, LAMBDA apt : lessThan(TODAY, apt.date))
      ELSE IF tab = "Past" THEN SelectSeq(all, LAMBDA apt : lessThan(apt.date, TODAY))
      ELSE all

\* lines 1052-1060
bySearch(list, term) ==
  IF term = "" THEN list
  ELSE LET searchLower == toLowerCase(term)
       IN  SelectSeq(list, LAMBDA apt :
             \/ includes(toLowerCase(apt.name), searchLower)
             \/ includes(toLowerCase(apt.doctorName), searchLower)
             \/ includes(toLowerCase(apt.reason), searchLower))

\* lines 1062-1070
byDropdowns(list, status, doctor) ==
  LET byStatus == IF status # "All Status"
                  THEN SelectSeq(list, LAMBDA apt : apt.status = status) ELSE list
  IN  IF doctor # "All Doctors"
      THEN SelectSeq(byStatus, LAMBDA apt : apt.doctorName = doctor) ELSE byStatus

filterEffect(appts, date, tab, term, status, doctor) ==
  byDropdowns(bySearch(byDateOrTab(appts, date, tab), term), status, doctor)

\* the effect runs after the render that follows a handler: the filtered
\* list of the next state is the effect applied to the next state
FilterEffectRuns ==
  filteredAppointments' =
    filterEffect(mockAppointments', selectedDate', activeTab', searchTerm',
                 statusFilter', doctorFilter')

\* the modal's effect of lines 402-406, which runs after every render of the
\* view (`doctors` is a new array each time)
syncDoctorName(fd, docs) ==
  IF Len(docs) > 0 /\ ~ \E i \in 1..Len(docs) : docs[i] = fd.doctorName
  THEN [fd EXCEPT !.doctorName = docs[1]]
  ELSE fd

(***************************************************************************)
(* The view: mount, and the handlers of the calendar, the tabs and the     *)
(* filter controls.  No handler runs before the mount effects have.        *)
(***************************************************************************)
\* lines 1015-1020, followed by the first run of the filter effect
initialFetch ==
  /\ ~ mounted
  /\ mounted' = TRUE
  /\ appointments' = getAppointmentsOf(mockAppointments, Undefined, Undefined, Undefined)
  /\ formData' = syncDoctorName(formData, doctors(appointments'))
  /\ lastEvent' = [NoEvent EXCEPT !.handler = "initialFetch"]
  /\ UNCHANGED <<storeVars, filterVars, isNewAppointmentOpen, createErrorState,
                 validationErrors>>
  /\ FilterEffectRuns

\* a handler that keeps the tab when a date is selected
handleDateSelect_keepsTab(date) ==
  /\ mounted
  /\ selectedDate' = IF selectedDate = date THEN "" ELSE date
  /\ activeTab' = activeTab
  /\ lastEvent' = [NoEvent EXCEPT !.handler = "handleDateSelect", !.arg = date]
  /\ UNCHANGED <<storeVars, appointments, searchTerm, statusFilter, doctorFilter,
                 modalVars, mounted>>
  /\ FilterEffectRuns

\* lines 1078-1088
handleDateSelect(date) ==
  /\ mounted
  /\ selectedDate' = IF selectedDate = date THEN "" ELSE date
  /\ activeTab' = IF selectedDate = date THEN activeTab ELSE "All"
  /\ lastEvent' = [NoEvent EXCEPT !.handler = "handleDateSelect", !.arg = date]
  /\ UNCHANGED <<storeVars, appointments, searchTerm, statusFilter, doctorFilter,
                 modalVars, mounted>>
  /\ FilterEffectRuns

\* lines 1091-1094
handleTabSelect(tab) ==
  /\ mounted
  /\ activeTab' = tab
  /\ selectedDate' = ""
  /\ lastEvent' = [NoEvent EXCEPT !.handler = "handleTabSelect", !.arg = tab]
  /\ UNCHANGED <<storeVars, appointments, searchTerm, statusFilter, doctorFilter,
                 modalVars, mounted>>
  /\ FilterEffectRuns

\* lines 1097-1103
handleClearFilters ==
  /\ mounted
  /\ selectedDate' = ""
  /\ activeTab' = "All"
  /\ searchTerm' = ""
  /\ statusFilter' = "All Status"
  /\ doctorFilter' = "All Doctors"
  /\ lastEvent' = [NoEvent EXCEPT !.handler = "handleClearFilters"]
  /\ UNCHANGED <<storeVars, appointments, modalVars, mounted>>
  /\ FilterEffectRuns

\* line 1337 (typing) and line 1345 (the clear button, term = "")
setSearchTerm(term) ==
  /\ mounted
  /\ searchTerm' = term
  /\ lastEvent' = [NoEvent EXCEPT !.handler = "setSearchTerm", !.arg = term]
  /\ UNCHANGED <<storeVars, appointments, selectedDate, activeTab, statusFilter,
                 doctorFilter, modalVars, mounted>>
  /\ FilterEffectRuns

\* line 1354
setStatusFilter(status) ==
  /\ mounted
  /\ statusFilter' = status
  /\ lastEvent' = [NoEvent EXCEPT !.handler = "setStatusFilter", !.arg = status]
  /\ UNCHANGED <<storeVars, appointments, selectedDate, activeTab, searchTerm,
                 doctorFilter, modalVars, mounted>>
  /\ FilterEffectRuns

\* line 1365: the options are 'All Doctors' and the doctors of the list
setDoctorFilter(doctor) ==
  /\ mounted
  /\ \/ doctor = "All Doctors"
     \/ \E i \in 1..Len(doctors(appointments)) : doctors(appointments)[i] = doctor
  /\ doctorFilter' = doctor
  /\ lastEvent' = [NoEvent EXCEPT !.handler = "setDoctorFilter", !.arg = doctor]
  /\ UNCHANGED <<storeVars, appointments, selectedDate, activeTab, searchTerm,
                 statusFilter, modalVars, mounted>>
  /\ FilterEffectRuns

\* the dates clicked in the calendar, the tabs, and what is typed or chosen
\* in the filter controls
CalendarDates == {"2026-01-29", "2026-01-30", "2026-02-01"}

Tabs == {"All", "Today", "Upcoming", "Past"}

SearchTerms == {"", "Kumar"}

StatusOptions == {"All Status", "Confirmed", "Cancelled"}

DoctorOptions == {"All Doctors", "Dr. Rajesh Kumar", "Dr. Priya Sharma"}

NextFilters ==
  \/ initialFetch
  \/ \E date \in CalendarDates : handleDateSelect(date)
  \/ \E tab \in Tabs : handleTabSelect(tab)
  \/ handleClearFilters
  \/ \E term \in SearchTerms : setSearchTerm(term)
  \/ \E status \in StatusOptions : setStatusFilter(status)
  \/ \E doctor \in DoctorOptions : setDoctorFilter(doctor)

SpecFilters == Init /\ [][NextFilters]_vars

(***************************************************************************)
(* The view: the New Appointment modal and the handlers that call the      *)
(* store.                                                                  *)
(***************************************************************************)
\* line 1225
openNewAppointment ==
  /\ mounted
  /\ isNewAppointmentOpen' = TRUE
  /\ lastEvent' = [NoEvent EXCEPT !.handler = "openNewAppointment"]
  /\ UNCHANGED <<storeVars, appointments, filteredAppointments, filterVars,
                 createErrorState, formData, validationErrors, mounted>>

\* setFormData(prev => ({ ...prev, [name]: value }))
setField(fd, name, value) ==
  CASE name = "patientName" -> [fd EXCEPT !.patientName = value]
    [] name = "date"        -> [fd EXCEPT !.date = value]
    [] name = "time"        -> [fd EXCEPT !.time = value]
    [] name = "duration"    -> [fd EXCEPT !.duration = value]
    [] name = "doctorName"  -> [fd EXCEPT !.doctorName = value]
    [] name = "mode"        -> [fd EXCEPT !.mode = value]
    [] name = "status"      -> [fd EXCEPT !.status = value]
    [] name = "reason"      -> [fd EXCEPT !.reason = value]
    [] name = "phone"       -> [fd EXCEPT !.phone = value]
    [] name = "email"       -> [fd EXCEPT !.email = value]
    [] name = "notes"       -> [fd EXCEPT !.notes = value]

\* lines 408-419; the modal renders its inputs only while it is open
handleChange(name, value) ==
  /\ mounted
  /\ isNewAppointmentOpen
  /\ formData' = setField(formData, name, value)
  /\ validationErrors' =
       IF name \in DOMAIN validationErrors /\ validationErrors[name] # ""
       THEN [validationErrors EXCEPT ![name] = ""]
       ELSE validationErrors
  /\ createErrorState' = NoError
  /\ lastEvent' = [NoEvent EXCEPT !.handler = "handleChange"]
  /\ UNCHANGED <<storeVars, appointments, filteredAppointments, filterVars,
                 isNewAppointmentOpen, mounted>>

\* a validation that forgets the date
validateForm_noDate(fd) ==
  [f \in DOMAIN NoValidationErrors |->
     CASE f = "patientName" ->
            IF trim(fd.patientName) = "" THEN "Patient name is required" ELSE ""
       [] f = "date"        -> ""
       [] f = "time"        -> IF isFalsy(fd, f) THEN "Time is required" ELSE ""
       [] f = "duration"    -> IF isFalsy(fd, f) THEN "Duration is required" ELSE ""
       [] f = "doctorName"  -> IF isFalsy(fd, f) THEN "Doctor is required" ELSE ""
       [] f = "mode"        -> IF isFalsy(fd, f) THEN "Mode is required" ELSE ""]

\* lines 421-443: the `errors` object, "" for a field without a message
validateForm(fd) ==
  [f \in DOMAIN NoValidationErrors |->
     CASE f = "patientName" ->
            IF trim(fd.patientName) = "" THEN "Patient name is required" ELSE ""
       [] f = "date"        -> IF isFalsy(fd, f) THEN "Date is required" ELSE ""
       [] f = "time"        -> IF isFalsy(fd, f) THEN "Time is required" ELSE ""
       [] f = "duration"    -> IF isFalsy(fd, f) THEN "Duration is required" ELSE ""
       [] f = "doctorName"  -> IF isFalsy(fd, f) THEN "Doctor is required" ELSE ""
       [] f = "mode"        -> IF isFalsy(fd, f) THEN "Mode is required" ELSE ""]

\* Object.keys(errors).length === 0
noErrors(errors) == \A f \in DOMAIN errors : errors[f] = ""

\* lines 1141-1168, with the renders that follow: the filter effect and the
\* modal's doctor effect
handleAddAppointment(appointmentData) ==
  /\ createAppointment(appointmentData)
  /\ appointments' =
       IF lastCall'.ok
       THEN getAppointmentsOf(mockAppointments', Undefined, Undefined, Undefined)
       ELSE appointments
  /\ isNewAppointmentOpen' = IF lastCall'.ok THEN FALSE ELSE isNewAppointmentOpen
  /\ createErrorState' = IF lastCall'.ok THEN NoError ELSE lastCall'.error
  /\ formData' = syncDoctorName(formData, doctors(appointments'))
  /\ IF lastCall'.ok THEN FilterEffectRuns ELSE UNCHANGED filteredAppointments

\* lines 448-458
handleSubmit ==
  /\ mounted
  /\ isNewAppointmentOpen
  /\ validationErrors' = validateForm(formData)
  /\ lastEvent' = [NoEvent EXCEPT !.handler = "handleSubmit"]
  /\ UNCHANGED <<filterVars, mounted>>
  /\ IF noErrors(validationErrors')
     THEN handleAddAppointment(formData)
     ELSE UNCHANGED <<storeVars, appointments, filteredAppointments,
                      isNewAppointmentOpen, createErrorState, formData>>

\* a close that leaves the error of the last create in place
handleClose_keepsError ==
  /\ mounted
  /\ isNewAppointmentOpen
  /\ formData' = DefaultFormData(doctors(appointments))
  /\ validationErrors' = NoValidationErrors
  /\ createErrorState' = createErrorState
  /\ isNewAppointmentOpen' = FALSE
  /\ lastEvent' = [NoEvent EXCEPT !.handler = "handleClose"]
  /\ UNCHANGED <<storeVars, appointments, filteredAppointments, filterVars, mounted>>

\* lines 460-480 with onClearError and onClose of lines 1418-1425
handleClose ==
  /\ mounted
  /\ isNewAppointmentOpen
  /\ formData' = DefaultFormData(doctors(appointments))
  /\ validationErrors' = NoValidationErrors
  /\ createErrorState' = NoError
  /\ isNewAppointmentOpen' = FALSE
  /\ lastEvent' = [NoEvent EXCEPT !.handler = "handleClose"]
  /\ UNCHANGED <<storeVars, appointments, filteredAppointments, filterVars, mounted>>

\* the card of appointment id is on the page
cardShown(id) ==
  \E i \in 1..Len(filteredAppointments) : filteredAppointments[i].id = id

\* the status the card of appointment id shows
cardStatus(id) ==
  LET i == CHOOSE k \in 1..Len(filteredAppointments) : filteredAppointments[k].id = id
  IN  filteredAppointments[i].status

\* lines 1115-1127, called by the Confirm and Cancel buttons of a card
\* (lines 959-972), each disabled while the card shows that status
handleStatusUpdate(id, newStatus) ==
  /\ mounted
  /\ cardShown(id)
  /\ cardStatus(id) # newStatus
  /\ updateAppointmentStatus(id, newStatus)
  /\ appointments' =
       IF lastCall'.ok
       THEN getAppointmentsOf(mockAppointments', Undefined, Undefined, Undefined)
       ELSE appointments
  /\ formData' = syncDoctorName(formData, doctors(appointments'))
  /\ lastEvent' = [NoEvent EXCEPT !.handler = "handleStatusUpdate"]
  /\ UNCHANGED <<filterVars, isNewAppointmentOpen, createErrorState,
                 validationErrors, mounted>>
  /\ IF lastCall'.ok THEN FilterEffectRuns ELSE UNCHANGED filteredAppointments

\* a delete handler that does not fetch the list again
handleDeleteAppointment_noRefresh(id) ==
  /\ mounted
  /\ cardShown(id)
  /\ deleteAppointment(id)
  /\ appointments' = appointments
  /\ formData' = syncDoctorName(formData, doctors(appointments'))
  /\ lastEvent' = [NoEvent EXCEPT !.handler = "handleDeleteAppointment"]
  /\ UNCHANGED <<filterVars, isNewAppointmentOpen, createErrorState,
                 validationErrors, mounted>>
  /\ IF lastCall'.ok THEN FilterEffectRuns ELSE UNCHANGED filteredAppointments

\* lines 1180-1192, called by the Delete button of a card once the user has
\* confirmed (lines 909-913)
handleDeleteAppointment(id) ==
  /\ mounted
  /\ cardShown(id)
  /\ deleteAppointment(id)
  /\ appointments' =
       IF lastCall'.ok
       THEN getAppointmentsOf(mockAppointments', Undefined, Undefined, Undefined)
       ELSE appointments
  /\ formData' = syncDoctorName(formData, doctors(appointments'))
  /\ lastEvent' = [NoEvent EXCEPT !.handler = "handleDeleteAppointment"]
  /\ UNCHANGED <<filterVars, isNewAppointmentOpen, createErrorState,
                 validationErrors, mounted>>
  /\ IF lastCall'.ok THEN FilterEffectRuns ELSE UNCHANGED filteredAppointments

\* what is typed into the form: a name, blanks, an emptied date or time, a
\* free time; the cards that are clicked
NameInputs == {"Test P", "  "}

DateInputs == {""}

TimeInputs == {T1200, <<>>}

CardIds == {1}

CardStatuses == {"Confirmed", "Cancelled"}

NextView ==
  \/ initialFetch
  \/ openNewAppointment
  \/ \E value \in NameInputs : handleChange("patientName", value)
  \/ \E value \in DateInputs : handleChange("date", value)
  \/ \E value \in TimeInputs : handleChange("time", value)
  \/ handleSubmit
  \/ handleClose
  \/ \E id \in CardIds, newStatus \in CardStatuses : handleStatusUpdate(id, newStatus)
  \/ \E id \in CardIds : handleDeleteAppointment(id)

SpecView == Init /\ [][NextView]_vars

(***************************************************************************)
(* Vocabulary of the properties.                                           *)
(***************************************************************************)
\* the half-open interval [IntervalStart(r), IntervalEnd(r)) of a record or payload
IntervalStart(r) == timeToMinutes(r.time)

IntervalEnd(r) == timeToMinutes(r.time) + r.duration

Overlap(a, b) ==
  IntervalStart(a) < IntervalEnd(b) /\ IntervalStart(b) < IntervalEnd(a)

SameDoctorAndDate(a, b) == a.doctorName = b.doctorName /\ a.date = b.date

\* the required fields a payload leaves empty
AbsentFields(p) ==
  {f \in RequiredFieldSet :
     \/ f = "patientName" /\ p.patientName = ""
     \/ f = "date"        /\ p.date = ""
     \/ f = "time"        /\ p.time = <<>>
     \/ f = "duration"    /\ p.duration = 0
     \/ f = "doctorName"  /\ p.doctorName = ""
     \/ f = "mode"        /\ p.mode = ""}

AllRequiredPresent(p) == AbsentFields(p) = {}

Positions == 1..Len(mockAppointments)

LiveIds == {mockAppointments[i].id : i \in Positions}

\* the non-Cancelled appointments of the payload's doctor and date that overlap it
Blockers(p) ==
  {i \in Positions :
     /\ SameDoctorAndDate(mockAppointments[i], p)
     /\ mockAppointments[i].status # "Cancelled"
     /\ Overlap(p, mockAppointments[i])}

\* the step is a call of the operation; its arguments are in lastCall'
CreateCalled == lastCall'.op = "create"

UpdateCalled == lastCall'.op = "update"

DeleteCalled == lastCall'.op = "delete"

\* a record with its status masked
NonStatus(a) == [a EXCEPT !.status = ""]

C2_ConflictIffOverlap ==
  [][\A p \in {lastCall'.payload} :
       (CreateCalled /\ AllRequiredPresent(p))
       => \A blockers \in {Blockers(p)} :
            /\ (lastCall'.error.type = "conflict") <=> (blockers # {})
            /\ (blockers = {}) => (lastCall'.ok /\ lastCall'.error = NoError)]_vars

C2_Witness ==
  /\ lastCall.op = "create"
  /\ lastCall.error.type = "conflict"
  /\ AllRequiredPresent(lastCall.payload)
  /\ Blockers(lastCall.payload) # {}

(***************************************************************************)
(* C3.  Every successful create returns an id greater than every id        *)
(* issued before it, deleted records included, and the ids of the live     *)
(* records are pairwise distinct.                                          *)
(***************************************************************************)
DistinctLiveIds(appts) ==
  Cardinality({appts[i].id : i \in 1..Len(appts)}) = Len(appts)

C3_IdsStrictlyIncrease ==
  [][/\ (lastCall'.op = "create" /\ lastCall'.ok)
        => /\ \A i \in issuedIds : lastCall'.ret[1].id > i
           /\ lastCall'.ret[1].id \in issuedIds'
     /\ DistinctLiveIds(mockAppointments)
     /\ DistinctLiveIds(mockAppointments')]_vars

C3_Witness ==
  /\ lastCall.op = "create"
  /\ lastCall.ok
  /\ lastCall.ret[1].id \in LiveIds
  /\ \E i \in issuedIds : i > 12 /\ i \notin LiveIds

(***************************************************************************)
(* C4.  A create with a required field missing or empty raises an error    *)
(* that lists exactly the missing required fields, each once, and leaves   *)
(* the collection as it was.                                               *)
(***************************************************************************)
C4_AllMissingReported ==
  [][\A p \in {lastCall'.payload} :
       (CreateCalled /\ ~ AllRequiredPresent(p))
       => /\ lastCall'.error.type = "missing"
          /\ {lastCall'.error.fields[k] : k \in 1..Len(lastCall'.error.fields)}
               = AbsentFields(p)
          /\ Len(lastCall'.error.fields) = Cardinality(AbsentFields(p))
          /\ mockAppointments' = mockAppointments]_vars

C4_Witness ==
  /\ lastCall.op = "create"
  /\ lastCall.error.type = "missing"
  /\ lastCall.error.fields = <<"date", "duration", "mode">>
  /\ AbsentFields(lastCall.payload) = {"date", "duration", "mode"}

(***************************************************************************)
(* C5.  A create that fails, for missing fields or for a time conflict,    *)
(* leaves the collection and the id counter unchanged, so a successful     *)
(* create gets the id the counter held, however many creates failed.       *)
(***************************************************************************)
C5_FailedCreateChangesNothing ==
  [][/\ (lastCall'.op = "create" /\ ~ lastCall'.ok)
        => /\ lastCall'.error.type \in {"missing", "conflict"}
           /\ mockAppointments' = mockAppointments
           /\ _nextId' = _nextId
     /\ (lastCall'.op = "create" /\ lastCall'.ok)
        => lastCall'.ret[1].id = FirstFreeId + Cardinality({i \in issuedIds : i >= FirstFreeId})]_vars

C5_Witness ==
  /\ lastCall.op = "create"
  /\ lastCall.error.type = "conflict"
  /\ _nextId = FirstFreeId + 1
  /\ Len(mockAppointments) = Cardinality(issuedIds)

(***************************************************************************)
(* C6.  A Cancelled appointment never makes a create fail: when every      *)
(* appointment of the doctor and date that overlaps the candidate is       *)
(* Cancelled, a create with all required fields succeeds.                  *)
(***************************************************************************)
CancelledOverlapping(p) ==
  {i \in Positions :
     /\ SameDoctorAndDate(mockAppointments[i], p)
     /\ mockAppointments[i].status = "Cancelled"
     /\ Overlap(p, mockAppointments[i])}

C6_CancelledNeverBlocks ==
  [][\A p \in {lastCall'.payload} :
       ( /\ CreateCalled
         /\ AllRequiredPresent(p)
         /\ CancelledOverlapping(p) # {}
         /\ Blockers(p) = {} )
       => lastCall'.ok]_vars

C6_Witness ==
  /\ lastCall.op = "create"
  /\ lastCall.ok
  /\ \E i \in Positions :
       /\ mockAppointments[i].id # lastCall.ret[1].id
       /\ mockAppointments[i].status = "Cancelled"
       /\ SameDoctorAndDate(mockAppointments[i], lastCall.ret[1])
       /\ Overlap(mockAppointments[i], lastCall.ret[1])

(***************************************************************************)
(* C7.  Intervals that only touch at an endpoint do not conflict: a        *)
(* candidate that starts when a non-Cancelled appointment of the doctor    *)
(* and date ends, or ends when one starts, is accepted.                    *)
(***************************************************************************)
TouchingBefore(p) ==
  {i \in Positions :
     /\ SameDoctorAndDate(mockAppointments[i], p)
     /\ mockAppointments[i].status # "Cancelled"
     /\ IntervalEnd(mockAppointments[i]) = IntervalStart(p)}

TouchingAfter(p) ==
  {i \in Positions :
     /\ SameDoctorAndDate(mockAppointments[i], p)
     /\ mockAppointments[i].status # "Cancelled"
     /\ IntervalStart(mockAppointments[i]) = IntervalEnd(p)}

C7_TouchingIsNoConflict ==
  [][\A p \in {lastCall'.payload} :
       ( /\ CreateCalled
         /\ AllRequiredPresent(p)
         /\ p.duration > 0
         /\ TouchingBefore(p) \cup TouchingAfter(p) # {}
         /\ \A i \in Positions :
              ( /\ SameDoctorAndDate(mockAppointments[i], p)
                /\ mockAppointments[i].status # "Cancelled" )
              => \/ IntervalEnd(mockAppointments[i]) <= IntervalStart(p)
                 \/ IntervalEnd(p) <= IntervalStart(mockAppointments[i]) )
       => lastCall'.ok]_vars

C7_Witness ==
  /\ lastCall.op = "create"
  /\ lastCall.ok
  /\ \E i, j \in Positions :
       /\ mockAppointments[i].status # "Cancelled"
       /\ mockAppointments[j].status # "Cancelled"
       /\ SameDoctorAndDate(mockAppointments[i], lastCall.ret[1])
       /\ SameDoctorAndDate(mockAppointments[j], lastCall.ret[1])
       /\ IntervalEnd(mockAppointments[i]) = IntervalStart(lastCall.ret[1])
       /\ IntervalStart(mockAppointments[j]) = IntervalEnd(lastCall.ret[1])

(***************************************************************************)
(* C8.  A status update for an id that no record has returns null, raises  *)
(* nothing and leaves the collection unchanged.                            *)
(***************************************************************************)
C8_UpdateUnknownId ==
  [][\A id \in {lastCall'.id} :
       (UpdateCalled /\ id \notin LiveIds)
       => /\ lastCall'.ret = <<>>
          /\ lastCall'.error = NoError
          /\ mockAppointments' = mockAppointments]_vars

C8_Witness ==
  /\ lastCall.op = "update"
  /\ lastCall.ret = <<>>
  /\ lastCall.id \notin LiveIds
  /\ lastCall.id \in issuedIds

(***************************************************************************)
(* C9.  A status update for an existing id changes the status of that      *)
(* record and nothing else, and returns the record as stored; over any     *)
(* step, a record that stays in the collection keeps its non-status        *)
(* fields.                                                                 *)
(***************************************************************************)
C9_UpdateChangesOnlyStatus ==
  [][/\ \A id \in {lastCall'.id}, newStatus \in {lastCall'.newStatus} :
          (UpdateCalled /\ id \in LiveIds)
          => /\ Len(mockAppointments') = Len(mockAppointments)
             /\ \A i \in Positions :
                  /\ NonStatus(mockAppointments'[i]) = NonStatus(mockAppointments[i])
                  /\ mockAppointments'[i].status =
                       IF mockAppointments[i].id = id THEN newStatus
                       ELSE mockAppointments[i].status
             /\ _nextId' = _nextId
             /\ \E i \in Positions :
                  mockAppointments[i].id = id /\ lastCall'.ret = << mockAppointments'[i] >>
     /\ \A i \in Positions, j \in 1..Len(mockAppointments') :
          mockAppointments[i].id = mockAppointments'[j].id
          => NonStatus(mockAppointments[i]) = NonStatus(mockAppointments'[j])]_vars

C9_Witness ==
  /\ lastCall.op = "update"
  /\ lastCall.ok
  /\ lastCall.newStatus = "Cancelled"
  /\ \E i \in Positions :
       /\ lastCall.ret = << mockAppointments[i] >>
       /\ mockAppointments[i].id = lastCall.id
       /\ mockAppointments[i].status = "Cancelled"
  /\ \E i \in Positions :
       mockAppointments[i].id # lastCall.id /\ mockAppointments[i].status # "Cancelled"

(***************************************************************************)
(* C10.  Deleting an id that is in the collection removes exactly that     *)
(* record and returns true: the length drops by one, the other records     *)
(* keep their contents and order, the counter is unchanged.  Deleting an   *)
(* id that is not there returns false and changes nothing.                 *)
(***************************************************************************)
C10_DeleteRemovesExactlyOne ==
  [][\A id \in {lastCall'.id} :
       DeleteCalled
       => /\ _nextId' = _nextId
          /\ IF id \in LiveIds
             THEN /\ lastCall'.ok
                  /\ Len(mockAppointments') = Len(mockAppointments) - 1
                  /\ mockAppointments' = SelectSeq(mockAppointments, LAMBDA a : a.id # id)
             ELSE /\ ~ lastCall'.ok
                  /\ mockAppointments' = mockAppointments]_vars

C10_Witness ==
  /\ lastCall.op = "delete"
  /\ lastCall.ok
  /\ lastCall.id = 13
  /\ lastCall.id \notin LiveIds
  /\ 1 \in LiveIds
  /\ 14 \in LiveIds

(***************************************************************************)
(* More vocabulary.                                                        *)
(***************************************************************************)
GetCalled == lastCall'.op = "get"

\* a filter or optional property that was given a value
Supplied(v) == v # Undefined /\ v # ""

\* the ids that were handed out and are no longer in the collection
DeletedIds == issuedIds \ LiveIds

IdsOf(list) == {list[k].id : k \in 1..Len(list)}

\* a record passes the filter: every supplied field is equal, exactly
Matches(a, f) ==
  /\ Supplied(f.date) => a.date = f.date
  /\ Supplied(f.status) => a.status = f.status
  /\ Supplied(f.doctorName) => a.doctorName = f.doctorName

\* ids are handed out in increasing order and the seed is listed by id, so
\* a collection in insertion order is a collection in increasing id order
InsertionOrder(appts) ==
  \A i, j \in 1..Len(appts) : i < j => appts[i].id < appts[j].id

(***************************************************************************)
(* C11.  Deletion is permanent: a delete that returned true leaves no      *)
(* record with that id, and from then on no step brings the id back,       *)
(* getAppointments never returns it, updateAppointmentStatus on it         *)
(* returns null and deleteAppointment on it returns false.                 *)
(***************************************************************************)
C11_DeletionIsPermanent ==
  [][/\ (DeleteCalled /\ lastCall'.ok) => lastCall'.id \notin LiveIds'
     /\ \A i \in DeletedIds :
          /\ i \notin LiveIds'
          /\ GetCalled => i \notin IdsOf(lastCall'.list)
          /\ (UpdateCalled /\ lastCall'.id = i) => lastCall'.ret = <<>>
          /\ (DeleteCalled /\ lastCall'.id = i) => ~ lastCall'.ok]_vars

C11_Witness ==
  /\ lastCall.op = "delete"
  /\ ~ lastCall.ok
  /\ lastCall.id \in DeletedIds
  /\ \E j \in LiveIds : j > lastCall.id

(***************************************************************************)
(* C12.  getAppointments returns exactly the records of the collection     *)
(* that equal every supplied filter, the filters combined with AND and an  *)
(* omitted filter imposing nothing; nothing matching gives the empty       *)
(* sequence.                                                               *)
(***************************************************************************)
C12_QueryReturnsExactlyMatches ==
  [][GetCalled =>
       \A f \in {lastCall'.filter} :
         /\ {lastCall'.list[k] : k \in 1..Len(lastCall'.list)}
              = {mockAppointments[i] : i \in {j \in Positions : Matches(mockAppointments[j], f)}}
         /\ Len(lastCall'.list)
              = Cardinality({j \in Positions : Matches(mockAppointments[j], f)})
         /\ (~ Supplied(f.date) /\ ~ Supplied(f.status) /\ ~ Supplied(f.doctorName))
              => lastCall'.list = mockAppointments]_vars

C12_Witness ==
  /\ lastCall.op = "get"
  /\ Supplied(lastCall.filter.date)
  /\ Supplied(lastCall.filter.doctorName)
  /\ ~ Supplied(lastCall.filter.status)
  /\ Len(lastCall.list) > 0
  /\ \E i, j \in Positions :
       /\ mockAppointments[i].date = lastCall.filter.date
       /\ mockAppointments[i].doctorName # lastCall.filter.doctorName
       /\ mockAppointments[j].date # lastCall.filter.date
       /\ mockAppointments[j].doctorName = lastCall.filter.doctorName

(***************************************************************************)
(* C13.  getAppointments changes neither the collection nor the id         *)
(* counter, and lists its records in the order they have in the            *)
(* collection, which is insertion order with the deleted records gone.     *)
(***************************************************************************)
InCollectionOrder(list, appts) ==
  \A k, l \in 1..Len(list) :
    k < l => \E i, j \in 1..Len(appts) :
               i < j /\ appts[i] = list[k] /\ appts[j] = list[l]

C13_QueryIsReadOnlyAndOrdered ==
  [][/\ GetCalled
        => /\ mockAppointments' = mockAppointments
           /\ _nextId' = _nextId
           /\ InCollectionOrder(lastCall'.list, mockAppointments)
     /\ InsertionOrder(mockAppointments)
     /\ InsertionOrder(mockAppointments')]_vars

C13_Witness ==
  /\ lastCall.op = "get"
  /\ Len(lastCall.list) >= 2
  /\ DeletedIds # {}
  /\ \E i \in IdsOf(lastCall.list) : i >= FirstFreeId
  /\ \E i \in IdsOf(lastCall.list) : i < FirstFreeId

(***************************************************************************)
(* C14.  A successful create appends one record at the end and returns     *)
(* it: the record carries the submitted name, date, time, duration,        *)
(* doctor and mode, the supplied status or 'Scheduled', the supplied       *)
(* reason, phone, email and notes or the empty string; the records that    *)
(* were there are unchanged and the counter grows by one.                  *)
(***************************************************************************)
SuppliedOr(v, default) == IF Supplied(v) THEN v ELSE default

C14_CreateAppendsTheRecord ==
  [][(CreateCalled /\ lastCall'.ok) =>
       \A p \in {lastCall'.payload} :
         /\ Len(lastCall'.ret) = 1
         /\ Len(mockAppointments') = Len(mockAppointments) + 1
         /\ SubSeq(mockAppointments', 1, Len(mockAppointments)) = mockAppointments
         /\ mockAppointments'[Len(mockAppointments')] = lastCall'.ret[1]
         /\ lastCall'.ret[1].name = p.patientName
         /\ lastCall'.ret[1].date = p.date
         /\ lastCall'.ret[1].time = p.time
         /\ lastCall'.ret[1].duration = p.duration
         /\ lastCall'.ret[1].doctorName = p.doctorName
         /\ lastCall'.ret[1].mode = p.mode
         /\ lastCall'.ret[1].status = SuppliedOr(p.status, "Scheduled")
         /\ lastCall'.ret[1].reason = SuppliedOr(p.reason, "")
         /\ lastCall'.ret[1].phone = SuppliedOr(p.phone, "")
         /\ lastCall'.ret[1].email = SuppliedOr(p.email, "")
         /\ lastCall'.ret[1].notes = SuppliedOr(p.notes, "")
         /\ _nextId' = _nextId + 1]_vars

C14_Witness ==
  /\ lastCall.op = "create"
  /\ lastCall.ok
  /\ lastCall.payload.status = Undefined
  /\ lastCall.payload.notes = Undefined
  /\ lastCall.ret[1].status = "Scheduled"
  /\ lastCall.ret[1].notes = ""
  /\ \E i \in Positions :
       /\ mockAppointments[i].status = "Upcoming"
       /\ mockAppointments[i].reason = "Fever"
       /\ mockAppointments[i].id >= FirstFreeId

(***************************************************************************)
(* C15.  Status transitions are unrestricted and no status is terminal:    *)
(* an update of a live record to any of the four statuses succeeds and     *)
(* leaves the record in that status, whatever status it had; a Cancelled   *)
(* record can be moved back.                                               *)
(***************************************************************************)
C15_AnyTransitionAllowed ==
  [][\A s \in Statuses, t \in Statuses :
       \A i \in Positions :
         ( /\ UpdateCalled
           /\ lastCall'.id = mockAppointments[i].id
           /\ lastCall'.newStatus = t
           /\ mockAppointments[i].status = s )
         => /\ lastCall'.ok
            /\ lastCall'.error = NoError
            /\ mockAppointments'[i].status = t
            /\ lastCall'.ret = << mockAppointments'[i] >>]_vars

C15_Witness ==
  /\ lastCall.op = "update"
  /\ lastCall.ok
  /\ lastCall.id = 7
  /\ lastCall.newStatus = "Scheduled"
  /\ \E i \in Positions :
       mockAppointments[i].id = 7 /\ mockAppointments[i].status = "Scheduled"

(***************************************************************************)
(* C16.  Every record in the collection has duration > 0, whatever         *)
(* integer duration is submitted to createAppointment.  The code rejects   *)
(* 0 (as a missing field) but stores a negative duration.                  *)
(***************************************************************************)
C16_DurationPositive ==
  \A i \in Positions : mockAppointments[i].duration > 0

(***************************************************************************)
(* C17.  The status of every record in the collection is one of            *)
(* Scheduled, Confirmed, Upcoming, Cancelled, whatever status is passed to *)
(* createAppointment or updateAppointmentStatus.  The code stores the      *)
(* status it is given.                                                     *)
(***************************************************************************)
C17_StatusInEnum ==
  \A i \in Positions : mockAppointments[i].status \in Statuses

(***************************************************************************)
(* C18.  In the seed state, the 09:15 request for Dr. Rajesh Kumar on      *)
(* 2026-01-30 fails with a time conflict that names the seed appointment   *)
(* at 09:00 for 30 minutes, and the collection still holds the 12 seed     *)
(* records.                                                                *)
(***************************************************************************)
InSeedState == mockAppointments = SeedAppointments /\ _nextId = 13

C18_SeedConflictScenario ==
  [][( /\ InSeedState
       /\ CreateCalled
       /\ lastCall'.payload = BasePayload )
     => /\ ~ lastCall'.ok
        /\ lastCall'.error.type = "conflict"
        /\ lastCall'.error.doctor = "Dr. Rajesh Kumar"
        /\ lastCall'.error.date = "2026-01-30"
        /\ timeToMinutes(lastCall'.error.time) = 9 * 60
        /\ lastCall'.error.duration = 30
        /\ lastCall'.error.patient = "Sarah Johnson"
        /\ mockAppointments' = SeedAppointments
        /\ Len(mockAppointments') = 12]_vars

C18_Witness ==
  /\ InSeedState
  /\ lastCall.op = "create"
  /\ lastCall.payload.patientName = "Test P"
  /\ lastCall.payload.time = T0915
  /\ lastCall.error.type = "conflict"
  /\ lastCall.error.patient = "Sarah Johnson"

(***************************************************************************)
(* C19.  In the seed state, also after creates that failed, the 12:00      *)
(* request for Dr. Rajesh Kumar on 2026-01-30 succeeds: the record has     *)
(* status 'Scheduled' and id 13 and the collection then holds 13 records.  *)
(***************************************************************************)
C19_SeedSuccessScenario ==
  [][( /\ InSeedState
       /\ CreateCalled
       /\ lastCall'.payload = BarePayload )
     => /\ lastCall'.ok
        /\ lastCall'.error = NoError
        /\ lastCall'.ret[1].status = "Scheduled"
        /\ lastCall'.ret[1].id = 13
        /\ Len(mockAppointments') = 13
        /\ mockAppointments'[13] = lastCall'.ret[1]]_vars

C19_Witness ==
  /\ lastCall.op = "create"
  /\ lastCall.ok
  /\ lastCall.payload.patientName = "Test P2"
  /\ lastCall.payload.time = T1200
  /\ lastCall.ret[1].id = 13
  /\ lastCall.ret[1].status = "Scheduled"
  /\ Len(mockAppointments) = 13
  /\ SubSeq(mockAppointments, 1, 12) = SeedAppointments

(***************************************************************************)
(* C20.  The initial state satisfies the data-model invariants: 12 seed    *)
(* records with pairwise distinct ids, all below the initial counter 13,   *)
(* every duration > 0, every status one of the four, and no two            *)
(* non-Cancelled records of one doctor and date overlapping.               *)
(***************************************************************************)
NoOverlapIn(appts) ==
  \A i \in 1..Len(appts) :
    appts[i].status # "Cancelled"
    => \A j \in (i + 1)..Len(appts) :
         ( /\ appts[j].status # "Cancelled"
           /\ SameDoctorAndDate(appts[i], appts[j]) )
         => ~ Overlap(appts[i], appts[j])

C20_SeedSatisfiesInvariants ==
  lastCall.op = "none"
  => /\ Len(mockAppointments) = 12
     /\ _nextId = 13
     /\ DistinctLiveIds(mockAppointments)
     /\ \A i \in Positions :
          /\ mockAppointments[i].id < _nextId
          /\ mockAppointments[i].duration > 0
          /\ mockAppointments[i].status \in Statuses
     /\ NoOverlapIn(mockAppointments)

C20_Witness ==
  /\ lastCall.op = "none"
  /\ mockAppointments = SeedAppointments
  /\ \E i, j \in Positions :
       /\ i < j
       /\ SameDoctorAndDate(mockAppointments[i], mockAppointments[j])
       /\ mockAppointments[i].status # "Cancelled"
       /\ mockAppointments[j].status # "Cancelled"

(***************************************************************************)
(* C21.  The store initializes with exactly 12 appointments that span 5    *)
(* distinct calendar dates, 4 distinct doctors, all 4 statuses and all 3   *)
(* modes.  The seed of lines 33-202 has 6 distinct dates and 3 distinct    *)
(* doctors: C21_SeedSpans states the claim as made, C21_SeedSpansAmended   *)
(* the counts the seed has.                                                *)
(***************************************************************************)
FieldValues(appts, f) == {appts[i][f] : i \in 1..Len(appts)}

Modes == {"In-Person", "Video Call", "Phone Call"}

BeforeAnyCall == lastCall.op = "none"

C21_SeedSpans ==
  BeforeAnyCall
  => /\ Len(mockAppointments) = 12
     /\ Cardinality(FieldValues(mockAppointments, "date")) = 5
     /\ Cardinality(FieldValues(mockAppointments, "doctorName")) = 4
     /\ FieldValues(mockAppointments, "status") = Statuses
     /\ FieldValues(mockAppointments, "mode") = Modes

C21_SeedSpansAmended ==
  BeforeAnyCall
  => /\ Len(mockAppointments) = 12
     /\ Cardinality(FieldValues(mockAppointments, "date")) = 6
     /\ Cardinality(FieldValues(mockAppointments, "doctorName")) = 3
     /\ FieldValues(mockAppointments, "status") = Statuses
     /\ FieldValues(mockAppointments, "mode") = Modes

C21_Witness ==
  /\ BeforeAnyCall
  /\ Len(mockAppointments) = 12
  /\ "2026-02-02" \in FieldValues(mockAppointments, "date")
  /\ "Dr. Amit Patel" \in FieldValues(mockAppointments, "doctorName")

(***************************************************************************)
(* C22.  Required-field validation comes before conflict detection: a      *)
(* create whose payload lacks a required field, and whose doctor, date,    *)
(* time and duration overlap a non-Cancelled appointment of that doctor    *)
(* and date, raises the missing-fields error, never the time conflict.     *)
(***************************************************************************)
SlotFields == {"date", "time", "duration", "doctorName"}

MissingAndOverlapping(p) ==
  /\ AbsentFields(p) # {}
  /\ AbsentFields(p) \cap SlotFields = {}
  /\ Blockers(p) # {}

C22_ValidationBeforeConflict ==
  [][\A p \in {lastCall'.payload} :
       (CreateCalled /\ MissingAndOverlapping(p))
       => /\ lastCall'.error.type = "missing"
          /\ lastCall'.error.type # "conflict"
          /\ ~ lastCall'.ok]_vars

C22_Witness ==
  /\ lastCall.op = "create"
  /\ lastCall.error.type = "missing"
  /\ MissingAndOverlapping(lastCall.payload)

(***************************************************************************)
(* C23.  A time-conflict error names, by time, duration and patient name,  *)
(* an appointment of the collection that is non-Cancelled, has the         *)
(* candidate's doctor and date and overlaps the candidate; of several      *)
(* such appointments it names the earliest in collection order.            *)
(***************************************************************************)
Earliest(S) == CHOOSE i \in S : \A j \in S : i <= j

NamedBy(error, r) ==
  /\ error.time = r.time
  /\ error.duration = r.duration
  /\ error.patient = r.name

C23_ConflictNamesEarliestBlocker ==
  [][\A p \in {lastCall'.payload} :
       (CreateCalled /\ lastCall'.error.type = "conflict")
       => \A blockers \in {Blockers(p)} :
            /\ blockers # {}
            /\ NamedBy(lastCall'.error, mockAppointments[Earliest(blockers)])]_vars

C23_Witness ==
  /\ lastCall.op = "create"
  /\ lastCall.error.type = "conflict"
  /\ Cardinality(Blockers(lastCall.payload)) >= 2
  /\ NamedBy(lastCall.error, mockAppointments[Earliest(Blockers(lastCall.payload))])
  /\ \E i \in Blockers(lastCall.payload) :
       ~ NamedBy(lastCall.error, mockAppointments[i])

(***************************************************************************)
(* C24.  Every step preserves the no-overlap invariant, except an          *)
(* updateAppointmentStatus that moves a Cancelled record to a              *)
(* non-Cancelled status: with C20 for the initial state, a run without     *)
(* such an update has no two overlapping non-Cancelled appointments of     *)
(* one doctor and date in any state.                                       *)
(***************************************************************************)
Revives ==
  /\ UpdateCalled
  /\ lastCall'.newStatus # "Cancelled"
  /\ \E i \in Positions :
       /\ mockAppointments[i].id = lastCall'.id
       /\ mockAppointments[i].status = "Cancelled"

C24_NoOverlapPreservedWithoutRevival ==
  [][(NoOverlapIn(mockAppointments) /\ ~ Revives)
     => NoOverlapIn(mockAppointments')]_vars

C24_Witness ==
  /\ NoOverlapIn(mockAppointments)
  /\ Len(mockAppointments) = Len(SeedAppointments) + 1
  /\ lastCall.op = "update"
  /\ lastCall.ok
  /\ lastCall.newStatus = "Confirmed"
  /\ \E i \in Positions : mockAppointments[i].status = "Cancelled" /\ mockAppointments[i].id = 1

(***************************************************************************)
(* C25.  A slot is freed by cancellation or deletion: when a create of p   *)
(* fails with a time conflict and record r is the only non-Cancelled       *)
(* appointment of that doctor and date overlapping p, then right after     *)
(* deleteAppointment(r.id) or updateAppointmentStatus(r.id, 'Cancelled')   *)
(* the same create of p raises no error.                                   *)
(***************************************************************************)
\* the step is a successful delete, or a successful update to 'Cancelled'
DeletedOrCancelled ==
  /\ lastCall'.ok
  /\ \/ DeleteCalled
     \/ UpdateCalled /\ lastCall'.newStatus = "Cancelled"

C25_SlotFreedByCancelOrDelete ==
  [][DeletedOrCancelled
     => \A p \in CompletePayloads :
          \A blockers \in {Blockers(p)} :
            \A i \in blockers :
              ( /\ blockers = {i}
                /\ mockAppointments[i].id = lastCall'.id
                /\ createError(mockAppointments, p).type = "conflict" )
              => createError(mockAppointments', p) = NoError]_vars

C25_Witness ==
  /\ lastCall.op = "create"
  /\ lastCall.ok
  /\ lastCall.payload.time = T0915
  /\ lastCall.ret[1].status # "Cancelled"
  /\ \A i \in Positions :
       mockAppointments[i].id = 1 => mockAppointments[i].status = "Cancelled"
  /\ createError(SeedAppointments, lastCall.payload).type = "conflict"

(***************************************************************************)
(* C26.  The view's `appointments` state mirrors the store: once the       *)
(* initial fetch has run, and after every handleStatusUpdate,              *)
(* handleAddAppointment and handleDeleteAppointment, successful or not,    *)
(* `appointments` holds exactly the records of the store collection, in    *)
(* the same order and with the same statuses.                              *)
(***************************************************************************)
C26_ViewMirrorsStore ==
  mounted
  => /\ Len(appointments) = Len(mockAppointments)
     /\ \A i \in Positions : appointments[i] = mockAppointments[i]

C26_Witness ==
  /\ mounted
  /\ lastEvent.handler = "handleDeleteAppointment"
  /\ lastCall.op = "delete"
  /\ lastCall.ok
  /\ Len(appointments) = Len(SeedAppointments)
  /\ appointments = mockAppointments
  /\ \E i \in Positions : appointments[i].name = "Test P"

(***************************************************************************)
(* C27.  A calendar date and a tab other than 'All' are never active       *)
(* together: selectedDate is non-empty only if activeTab is 'All';         *)
(* selecting the selected date again clears selectedDate, and selecting    *)
(* any tab clears selectedDate.                                            *)
(***************************************************************************)
DateXorTab == selectedDate # "" => activeTab = "All"

C27_DateAndTabExclusive ==
  [][/\ DateXorTab'
     /\ (lastEvent'.handler = "handleDateSelect" /\ lastEvent'.arg = selectedDate)
        => selectedDate' = ""
     /\ lastEvent'.handler = "handleTabSelect" => selectedDate' = ""]_vars

C27_Witness ==
  /\ lastEvent.handler = "handleDateSelect"
  /\ selectedDate # ""
  /\ activeTab = "All"
  /\ statusFilter # "All Status"
  /\ Len(filteredAppointments) > 0
  /\ \A i \in 1..Len(filteredAppointments) : filteredAppointments[i].date = selectedDate

(***************************************************************************)
(* C28.  A create error is shown only while the New Appointment modal is   *)
(* open: createError is non-empty only if isNewAppointmentOpen; a          *)
(* handleAddAppointment whose create succeeds ends with the modal closed   *)
(* and no error, one whose create throws ends with the modal open, the     *)
(* thrown error in createError and the store unchanged.                    *)
(***************************************************************************)
\* the step is a handleSubmit whose validation passed: handleAddAppointment ran
AddAppointmentCalled ==
  /\ lastEvent'.handler = "handleSubmit"
  /\ \A f \in DOMAIN validationErrors' : validationErrors'[f] = ""

C28_ErrorOnlyWhileModalOpen ==
  [][/\ createErrorState' # NoError => isNewAppointmentOpen'
     /\ AddAppointmentCalled
        => /\ lastCall'.op = "create"
           /\ lastCall'.ok
              => /\ ~ isNewAppointmentOpen'
                 /\ createErrorState' = NoError
           /\ ~ lastCall'.ok
              => /\ isNewAppointmentOpen'
                 /\ createErrorState' = lastCall'.error
                 /\ createErrorState' # NoError
                 /\ mockAppointments' = mockAppointments
                 /\ _nextId' = _nextId]_vars

C28_Witness ==
  /\ lastEvent.handler = "handleSubmit"
  /\ lastCall.op = "create"
  /\ ~ lastCall.ok
  /\ isNewAppointmentOpen
  /\ createErrorState.type = "conflict"
  /\ createErrorState = lastCall.error

(***************************************************************************)
(* C29.  The New Appointment form is reset on close: whenever the modal    *)
(* is opened after it was closed, by the close button or by a successful   *)
(* create, the form shows its defaults: empty patient name, time 09:00,    *)
(* duration 30, status Scheduled, mode In-Person, empty optional fields.   *)
(***************************************************************************)
FormAtDefaults(fd) ==
  /\ fd.patientName = ""
  /\ fd.time = T0900
  /\ fd.duration = 30
  /\ fd.status = "Scheduled"
  /\ fd.mode = "In-Person"
  /\ fd.reason = ""
  /\ fd.phone = ""
  /\ fd.email = ""
  /\ fd.notes = ""

C29_FormResetOnClose ==
  [][(~ isNewAppointmentOpen /\ isNewAppointmentOpen') => FormAtDefaults(formData')]_vars

(***************************************************************************)
(* C30.  The form validates at least as strictly as the store: every       *)
(* payload the modal passes to onSave has its six required fields          *)
(* non-empty, so a create made through the form never fails for missing    *)
(* fields and can fail only with a time conflict.                          *)
(***************************************************************************)
C30_FormValidationCoversStore ==
  [][AddAppointmentCalled
     => /\ AbsentFields(formData) = {}
        /\ lastCall'.op = "create"
        /\ lastCall'.payload = formData
        /\ lastCall'.error.type # "missing"
        /\ lastCall'.error.type \in {"none", "conflict"}]_vars

C30_Witness ==
  /\ lastEvent.handler = "handleSubmit"
  /\ lastCall.op = "create"
  /\ lastCall.ok
  /\ AbsentFields(lastCall.payload) = {}
  /\ lastCall.payload.patientName = "Test P"
  /\ ~ isNewAppointmentOpen

====
